---- MODULE Spec2Model ----
(***************************************************************************)
(* Model of library/property_manager.py: the Ansible module that locates   *)
(* an Akamai property, forks a new version from the version active on      *)
(* production, uploads a rule tree to it and activates it on STAGING       *)
(* and/or PRODUCTION, polling until the activation is ACTIVE.              *)
(*                                                                         *)
(* Python values: a str that the code parses (versionLink, new_version) is *)
(* a sequence of one-character strings, '' being << >>; an opaque str      *)
(* (property name, propertyId, notes, links) is a TLA+ string; a value     *)
(* that is '' at first and an int later (current_version) is tagged with   *)
(* its type.  A dict is a function on its keys, so a key that was never    *)
(* assigned is not in the DOMAIN.                                          *)
(***************************************************************************)
EXTENDS Integers, Sequences, FiniteSets, TLC

VARIABLES
    params,       \* module.params
    check_mode,   \* module.check_mode
    result,       \* the global result dict
    pc,           \* position of run_module / activate_property
    network,      \* the network argument of the running activate_property
    activation_link, \* local of activate_property
    ruletree,     \* what open('./ruletree/<name>.ruletree.json') found
    calls,        \* outbound HTTP requests and sleeps, in order
    response,     \* the last HTTP response received
    outcome,      \* how the process ended
    reported,     \* the kwargs handed to exit_json / fail_json
    plane,        \* the control plane the run talks to, when it is modelled
    earlier       \* the runs that ended before this one (successive runs)

vars == <<params, check_mode, result, pc, network, activation_link,
          ruletree, calls, response, outcome, reported, plane, earlier>>

----------------------------------------------------------------------------
(* Bounds of the model *)

\* longest version-item list in a search response
MaxItems == 2
\* most status fetches of one activation the model follows
MaxPolls == 3
\* most runs in succession against one control plane
MaxRuns == 2

----------------------------------------------------------------------------
(* Python values *)

PyStr(s) == [t |-> "str", v |-> s]
PyInt(n) == [t |-> "int", v |-> n]

\* d[k] = v on a dict
SetKey(d, k, v) == [x \in DOMAIN d \cup {k} |-> IF x = k THEN v ELSE d[x]]

NoKwargs == [x \in {} |-> FALSE]

----------------------------------------------------------------------------
(* Inputs from the host *)

Names == {"demo", "fail me"}
Notes == {"n"}

Params == [name : Names, version_notes : Notes,
           activate_staging : BOOLEAN, activate_production : BOOLEAN]

\* the rule tree file of the property: absent, or a JSON object
RuleTrees == {"missing", "document"}

----------------------------------------------------------------------------
(* Responses of the control plane *)

StatusCodes == {200, 201, 204, 500}

\* one entry of versions.items in a search response
VersionItems ==
    {[productionStatus |-> "ACTIVE", propertyVersion |-> 4,
      propertyId |-> "prp_1"],
     [productionStatus |-> "ACTIVE", propertyVersion |-> 5,
      propertyId |-> "prp_2"],
     [productionStatus |-> "INACTIVE", propertyVersion |-> 6,
      propertyId |-> "prp_1"]}

ItemLists == UNION {[1..n -> VersionItems] : n \in 0..MaxItems}

\* response.text of a search: json is whether json.loads accepts it, shaped
\* whether the parsed object has ['versions']['items']
SearchTexts ==
    {[json |-> FALSE, shaped |-> FALSE, items |-> <<>>],
     [json |-> TRUE,  shaped |-> FALSE, items |-> <<>>]}
    \cup {[json |-> TRUE, shaped |-> TRUE, items |-> l] : l \in ItemLists}

\* versionLink values: '/', '?', digits and other characters
VersionLinks ==
    {<<"v", "/", "6", "?", "q">>,
     <<"v", "/", "6", "7", "?", "q">>,
     <<"v", "/", "6", "?", "q", "/", "7", "?", "q">>,
     <<"v", "/", "6">>,
     <<"v", "/", "6", "?">>,
     <<"/", "6", "?", "q">>,
     <<"v", "/", "q", "?", "q">>,
     <<>>}

\* response.text of a create: shaped is whether it has ['versionLink']
CreateTexts ==
    {[json |-> FALSE, shaped |-> FALSE, versionLink |-> <<>>],
     [json |-> TRUE,  shaped |-> FALSE, versionLink |-> <<>>]}
    \cup {[json |-> TRUE, shaped |-> TRUE, versionLink |-> l] :
              l \in VersionLinks}

\* response.text of a rule update
UpdateTexts == {[json |-> FALSE], [json |-> TRUE]}

ActivationLinks == {"atv_1", "atv_2"}

\* response.text of an activation: shaped is whether it has
\* ['activationLink']
ActivateTexts ==
    {[json |-> FALSE, shaped |-> FALSE, activationLink |-> ""],
     [json |-> TRUE,  shaped |-> FALSE, activationLink |-> ""]}
    \cup {[json |-> TRUE, shaped |-> TRUE, activationLink |-> l] :
              l \in ActivationLinks}

ActivationStatuses == {"ACTIVE", "PENDING", "FAILED"}

\* response.text of a status fetch: shaped is whether it has
\* ['activations']['items'][0]['status']
StatusTexts ==
    {[json |-> FALSE, shaped |-> FALSE, status |-> ""],
     [json |-> TRUE,  shaped |-> FALSE, status |-> ""]}
    \cup {[json |-> TRUE, shaped |-> TRUE, status |-> s] :
              s \in ActivationStatuses}

\* status codes of the status fetches
PollCodes == {200, 500}

NoResponse == [status_code |-> 0, text |-> [json |-> FALSE]]

----------------------------------------------------------------------------
(* The seeded result and the ways the process ends *)

\* the control plane left open: any response to any request
AnyPlane == [latest |-> 0, active |-> 0]

InitResult ==
    [changed |-> FALSE, failed |-> FALSE, propertyId |-> "",
     current_version |-> PyStr(""), new_version |-> <<>>]

Init ==
    /\ params \in Params
    /\ check_mode \in BOOLEAN
    /\ result = InitResult
    /\ pc = "run_module"
    /\ network = ""
    /\ activation_link = ""
    /\ ruletree = "unread"
    /\ calls = <<>>
    /\ response = NoResponse
    /\ outcome = "running"
    /\ reported = NoKwargs
    /\ plane = AnyPlane
    /\ earlier = <<>>

\* module.exit_json(**kwargs): report and leave the process
exit_json(kwargs) ==
    /\ outcome' = "exit_json"
    /\ reported' = kwargs
    /\ pc' = "done"

\* module.fail_json(msg=..., **kwargs): report with failed=True and leave
fail_json(msg, kwargs) ==
    /\ outcome' = "fail_json"
    /\ reported' = [x \in DOMAIN kwargs \cup {"msg"} |->
                       IF x = "msg" THEN msg
                       ELSE IF x = "failed" THEN TRUE ELSE kwargs[x]]
    /\ pc' = "done"

\* an exception nobody catches: traceback, no kwargs reach the host
uncaught ==
    /\ outcome' = "exception"
    /\ reported' = NoKwargs
    /\ pc' = "done"

----------------------------------------------------------------------------
(* error_handling *)

AcceptedCodes == {200, 201, 204}

\* error_handling without its 'Property Not Found' branch
error_handling_NoNotFound(resp, action) ==
    IF resp.status_code \notin AcceptedCodes THEN "transport"
    ELSE IF action = "search" /\ ~resp.text.shaped THEN "raise"
    ELSE "return"

\* what error_handling(response, action) does: "transport" and "notfound"
\* are its two fail_json calls, "raise" a KeyError from the body lookup,
\* "return" the plain return
error_handling(resp, action) ==
    IF resp.status_code \notin AcceptedCodes THEN "transport"
    ELSE IF action = "search"
         THEN IF ~resp.text.shaped THEN "raise"
              ELSE IF resp.text.items = <<>> THEN "notfound"
              ELSE "return"
    ELSE "return"

\* the part of a step that follows json.loads: act on error_handling's
\* verdict with the result as it is at that point, or go on with Then
Validated(resp, action, res, Then) ==
    LET verdict == error_handling(resp, action) IN
    CASE verdict = "transport" ->
             /\ result' = res
             /\ fail_json("Error Response Received from API Endpoint", res)
      [] verdict = "notfound" ->
             /\ result' = res
             /\ fail_json("Property Not Found", res)
      [] verdict = "raise" ->
             /\ result' = res
             /\ uncaught
      [] OTHER -> Then

----------------------------------------------------------------------------
(* search_property *)

\* a scan that stops at the first ACTIVE item
ScanItems_FirstWins(items, i, res) ==
    LET I == {k \in i..Len(items) : items[k].productionStatus = "ACTIVE"} IN
    IF I = {} THEN res
    ELSE LET k == CHOOSE x \in I : \A y \in I : x <= y
         IN [res EXCEPT
               !.current_version = PyInt(items[k].propertyVersion),
               !.propertyId = items[k].propertyId]

\* the scan of lines 195-198 over items[i..], starting from res
RECURSIVE ScanItems(_, _, _)
ScanItems(items, i, res) ==
    IF i > Len(items) THEN res
    ELSE ScanItems(items, i + 1,
             IF items[i].productionStatus = "ACTIVE"
             THEN [res EXCEPT
                     !.current_version = PyInt(items[i].propertyVersion),
                     !.propertyId = items[i].propertyId]
             ELSE res)

\* search_property when the request is answered with resp
search_property_on(property_name, resp) ==
    /\ calls' = Append(calls, [action |-> "search",
                               propertyName |-> property_name])
    /\ response' = resp
    /\ IF ~resp.text.json
       THEN /\ uncaught
            /\ UNCHANGED result
       ELSE LET res == SetKey(result, "api_search_response", resp.text)
            IN Validated(resp, "search", res,
                   /\ result' = ScanItems(resp.text.items, 1, res)
                   /\ pc' = "create"
                   /\ UNCHANGED <<outcome, reported>>)

search_property(property_name) ==
    \E resp \in [status_code : StatusCodes, text : SearchTexts] :
        search_property_on(property_name, resp)

SearchProperty ==
    /\ pc = "run_module"
    /\ ~check_mode
    /\ search_property(params.name)
    /\ UNCHANGED <<plane, earlier, params, check_mode, network,
                   activation_link, ruletree>>

----------------------------------------------------------------------------
(* run_module, check mode (lines 142-143) *)

CheckMode_Ignored ==
    /\ pc = "run_module"
    /\ check_mode
    /\ search_property(params.name)
    /\ UNCHANGED <<plane, earlier, params, check_mode, network,
                   activation_link, ruletree>>

CheckMode ==
    /\ pc = "run_module"
    /\ check_mode
    /\ exit_json(result)
    /\ UNCHANGED <<plane, earlier, params, check_mode, result, network,
                   activation_link, ruletree, calls, response>>

----------------------------------------------------------------------------
(* create_new_property_version *)

Digits == {"0", "1", "2", "3", "4", "5", "6", "7", "8", "9"}

\* s[i] is a '/' at which '\/(\d+)\?.+' matches with something before it
MatchesAt(s, i) ==
    /\ i >= 2
    /\ i <= Len(s)
    /\ s[i] = "/"
    /\ \E j \in (i + 2)..(Len(s) - 1) :
          /\ s[j] = "?"
          /\ \A k \in (i + 1)..(j - 1) : s[k] \in Digits

\* re.findall('.+(\d)\?.+', s): one digit, and no '/' asked for
re_findall_LastDigit(s) ==
    LET J == {j \in 3..(Len(s) - 1) : s[j] = "?" /\ s[j - 1] \in Digits} IN
    IF J = {} THEN <<>>
    ELSE LET j == CHOOSE x \in J : \A y \in J : y <= x
         IN <<SubSeq(s, j - 1, j - 1)>>

\* re.findall('.+\/(\d+)\?.+', s) for a one-line s: the leading '.+' is
\* greedy, so the match is at the last '/' where the rest can match, and
\* the trailing '.+' runs to the end, so there is at most one match
re_findall(s) ==
    LET I == {i \in 1..Len(s) : MatchesAt(s, i)} IN
    IF I = {} THEN <<>>
    ELSE LET i == CHOOSE x \in I : \A y \in I : y <= x
             j == CHOOSE x \in (i + 2)..(Len(s) - 1) :
                     /\ s[x] = "?"
                     /\ \A k \in (i + 1)..(x - 1) : s[k] \in Digits
         IN <<SubSeq(s, i + 1, j - 1)>>

\* create_new_property_version when the request is answered with resp
create_new_property_version_on(property_id, version, resp) ==
    /\ calls' = Append(calls, [action |-> "create",
                               property_id |-> property_id,
                               createFromVersion |-> version])
    /\ response' = resp
    /\ IF ~resp.text.json
       THEN /\ uncaught
            /\ UNCHANGED result
       ELSE LET res == SetKey(result, "api_creation_response", resp.text)
                new_version == re_findall(resp.text.versionLink)
            IN Validated(resp, "create", res,
                   IF ~resp.text.shaped \/ new_version = <<>>
                   THEN /\ result' = res
                        /\ uncaught
                   ELSE /\ result' = [res EXCEPT
                                        !.new_version = new_version[1],
                                        !.changed = TRUE]
                        /\ pc' = "update"
                        /\ UNCHANGED <<outcome, reported>>)

create_new_property_version(property_id, version) ==
    \E resp \in [status_code : StatusCodes, text : CreateTexts] :
        create_new_property_version_on(property_id, version, resp)

CreateNewPropertyVersion ==
    /\ pc = "create"
    /\ create_new_property_version(result.propertyId, result.current_version)
    /\ UNCHANGED <<plane, earlier, params, check_mode, network,
                   activation_link, ruletree>>

----------------------------------------------------------------------------
(* update_property *)

\* the two activations in the other order
AfterUpdate_ProductionFirst ==
    IF params.activate_production THEN "activate_production"
    ELSE IF params.activate_staging THEN "activate_staging"
    ELSE "finish"

\* where run_module goes after update_property (lines 153-156, 166)
AfterUpdate ==
    IF params.activate_staging THEN "activate_staging"
    ELSE IF params.activate_production THEN "activate_production"
    ELSE "finish"

\* PRODUCTION activated after STAGING whether asked for or not
AfterActivate_AlwaysProduction(net) ==
    IF net = "STAGING" THEN "activate_production" ELSE "finish"

\* where run_module goes after activate_property(network)
AfterActivate(net) ==
    IF net = "STAGING" /\ params.activate_production
    THEN "activate_production"
    ELSE "finish"

\* update_property with line 232 not commented out
update_property_Stores(property_name, property_id, new_version) ==
    \E file \in RuleTrees :
        /\ ruletree' = file
        /\ IF file = "missing"
           THEN /\ uncaught
                /\ UNCHANGED <<calls, response, result>>
           ELSE \E resp \in [status_code : StatusCodes, text : UpdateTexts] :
                  /\ calls' = Append(calls,
                        [action |-> "update",
                         property_id |-> property_id,
                         new_version |-> new_version,
                         comments |-> params.version_notes])
                  /\ response' = resp
                  /\ IF ~resp.text.json
                     THEN /\ uncaught
                          /\ UNCHANGED result
                     ELSE LET res == SetKey(result, "api_update_response",
                                            resp.text)
                          IN Validated(resp, "update", res,
                                 /\ result' = res
                                 /\ pc' = AfterUpdate
                                 /\ UNCHANGED <<outcome, reported>>)

\* update_property when the rule tree file is file and the request, if
\* one is sent, is answered with resp
update_property_on(property_name, property_id, new_version, file, resp) ==
    /\ ruletree' = file
    /\ IF file = "missing"
       THEN /\ uncaught
            /\ UNCHANGED <<calls, response, result>>
       ELSE /\ calls' = Append(calls,
                  [action |-> "update",
                   property_id |-> property_id,
                   new_version |-> new_version,
                   comments |-> params.version_notes])
            /\ response' = resp
            /\ IF ~resp.text.json
               THEN /\ uncaught
                    /\ UNCHANGED result
               ELSE Validated(resp, "update", result,
                        /\ pc' = AfterUpdate
                        /\ UNCHANGED <<result, outcome, reported>>)

update_property(property_name, property_id, new_version) ==
    \E file \in RuleTrees :
        \E resp \in [status_code : StatusCodes, text : UpdateTexts] :
            update_property_on(property_name, property_id, new_version,
                               file, resp)

UpdateProperty ==
    /\ pc = "update"
    /\ update_property(params.name, result.propertyId, result.new_version)
    /\ UNCHANGED <<plane, earlier, params, check_mode, network,
                   activation_link>>

----------------------------------------------------------------------------
(* activate_property *)

\* a request body built from the new_version the run started with
activation_request_Stale(property_id, net) ==
    [action |-> "activate",
     property_id |-> property_id,
     network |-> net,
     propertyVersion |-> InitResult.new_version,
     note |-> params.version_notes]

\* lines 240-248: the POST to .../properties/<property_id>/activations
activation_request(property_id, net) ==
    [action |-> "activate",
     property_id |-> property_id,
     network |-> net,
     propertyVersion |-> result.new_version,
     note |-> params.version_notes]

\* a loop that leaves on any status but PENDING
is_active_NotPending(text) == text.status # "PENDING"

\* a loop that takes a remote failure as terminal too
is_active_OrFailed(text) == text.status \in {"ACTIVE", "FAILED"}

\* line 258: the test that ends the polling loop
is_active(text) == text.status = "ACTIVE"

\* lines 239-253: the activation request
activate_property_on(property_id, net, resp) ==
    /\ calls' = Append(calls, activation_request(property_id, net))
    /\ response' = resp
    /\ network' = net
    /\ activation_link' =
          IF /\ resp.text.json
             /\ error_handling(resp, "activate") = "return"
             /\ resp.text.shaped
          THEN resp.text.activationLink
          ELSE activation_link
    /\ IF ~resp.text.json
       THEN /\ uncaught
            /\ UNCHANGED result
       ELSE LET res == SetKey(result, "api_activation_response",
                              resp.text)
            IN Validated(resp, "activate", res,
                   /\ result' = res
                   /\ IF ~resp.text.shaped
                      THEN uncaught
                      ELSE /\ pc' = "poll"
                           /\ UNCHANGED <<outcome, reported>>)

activate_property(property_id, net) ==
    \E resp \in [status_code : StatusCodes, text : ActivateTexts] :
        activate_property_on(property_id, net, resp)

ActivateStaging ==
    /\ pc = "activate_staging"
    /\ activate_property(result.propertyId, "STAGING")
    /\ UNCHANGED <<plane, earlier, params, check_mode, ruletree>>

ActivateProduction ==
    /\ pc = "activate_production"
    /\ activate_property(result.propertyId, "PRODUCTION")
    /\ UNCHANGED <<plane, earlier, params, check_mode, ruletree>>

\* the calls made since the running activation was requested
RECURSIVE FetchesSince(_, _)
FetchesSince(cs, i) ==
    IF i = 0 \/ cs[i].action = "activate" THEN 0
    ELSE FetchesSince(cs, i - 1) + (IF cs[i].action = "status" THEN 1 ELSE 0)

\* lines 256-259: one status fetch of the polling loop, answered with resp
fetch_status_on(resp) ==
    /\ calls' = Append(calls,
          [action |-> "status",
           link |-> activation_link,
           network |-> network,
           status |-> resp.text.status])
    /\ response' = resp
    /\ IF ~resp.text.json \/ ~resp.text.shaped
       THEN uncaught
       ELSE /\ pc' = IF is_active(resp.text)
                     THEN AfterActivate(network)
                     ELSE "sleep"
            /\ UNCHANGED <<outcome, reported>>

FetchStatus ==
    /\ pc = "poll"
    /\ FetchesSince(calls, Len(calls)) < MaxPolls
    /\ \E resp \in [status_code : PollCodes, text : StatusTexts] :
          fetch_status_on(resp)
    /\ UNCHANGED <<plane, earlier, params, check_mode, result, network,
                   activation_link, ruletree>>

PollInterval == 10

\* a loop that fetches again without waiting
Sleep_Skipped ==
    /\ pc = "sleep"
    /\ pc' = "poll"
    /\ UNCHANGED <<plane, earlier, params, check_mode, result, network,
                   activation_link, ruletree, calls, response, outcome,
                   reported>>

\* line 260: time.sleep(10)
Sleep ==
    /\ pc = "sleep"
    /\ calls' = Append(calls, [action |-> "sleep", seconds |-> PollInterval])
    /\ pc' = "poll"
    /\ UNCHANGED <<plane, earlier, params, check_mode, result, network, activation_link,
                   ruletree, response, outcome, reported>>

----------------------------------------------------------------------------
(* run_module, lines 166-171 *)

Finish ==
    /\ pc = "finish"
    /\ IF params.name = "fail me"
       THEN fail_json("You requested this to fail", result)
       ELSE exit_json(result)
    /\ UNCHANGED <<plane, earlier, params, check_mode, result, network,
                   activation_link, ruletree, calls, response>>

----------------------------------------------------------------------------
(* Successive runs against one control plane.  The control plane is the   *)
(* remote API: it numbers the versions of the property upwards, reports   *)
(* the version active on production in a search, and makes a version the  *)
(* active one when its PRODUCTION activation has become ACTIVE.            *)

\* latest: the highest version number given out; active: the version
\* active on production
Planes == {[latest |-> 5, active |-> 5],
           [latest |-> 8, active |-> 8],
           [latest |-> 9, active |-> 8]}

DigitChars == <<"0", "1", "2", "3", "4", "5", "6", "7", "8", "9">>

\* the decimal digits of n
RECURSIVE DigitsOf(_)
DigitsOf(n) ==
    IF n < 10 THEN <<DigitChars[n + 1]>>
    ELSE DigitsOf(n \div 10) \o <<DigitChars[(n % 10) + 1]>>

\* the number a string of decimal digits stands for
RECURSIVE IntOf(_)
IntOf(ds) ==
    IF ds = <<>> THEN 0
    ELSE 10 * IntOf(SubSeq(ds, 1, Len(ds) - 1))
         + (CHOOSE d \in 0..9 : DigitChars[d + 1] = ds[Len(ds)])

PlaneSearch(pl) ==
    [status_code |-> 200,
     text |-> [json |-> TRUE, shaped |-> TRUE,
               items |-> (IF pl.latest > pl.active
                          THEN <<[productionStatus |-> "INACTIVE",
                                  propertyVersion |-> pl.latest,
                                  propertyId |-> "prp_1"]>>
                          ELSE <<>>)
                         \o <<[productionStatus |-> "ACTIVE",
                                propertyVersion |-> pl.active,
                                propertyId |-> "prp_1"]>>]]

\* the answer to a create request: the next version number, in the link
PlaneCreate(pl) ==
    [status_code |-> 201,
     text |-> [json |-> TRUE, shaped |-> TRUE,
               versionLink |-> <<"v", "/">> \o DigitsOf(pl.latest + 1)
                               \o <<"?", "q">>]]

PlaneActivate(pl) ==
    [status_code |-> 201,
     text |-> [json |-> TRUE, shaped |-> TRUE, activationLink |-> "atv_1"]]

PlaneStatus(st) ==
    [status_code |-> 200,
     text |-> [json |-> TRUE, shaped |-> TRUE, status |-> st]]

InitRuns ==
    /\ params \in Params
    /\ check_mode = FALSE
    /\ result = InitResult
    /\ pc = "run_module"
    /\ network = ""
    /\ activation_link = ""
    /\ ruletree = "unread"
    /\ calls = <<>>
    /\ response = NoResponse
    /\ outcome = "running"
    /\ reported = NoKwargs
    /\ plane \in Planes
    /\ earlier = <<>>

RunSearch ==
    /\ pc = "run_module"
    /\ ~check_mode
    /\ search_property_on(params.name, PlaneSearch(plane))
    /\ UNCHANGED <<plane, earlier, params, check_mode, network,
                   activation_link, ruletree>>

RunCreate ==
    /\ pc = "create"
    /\ create_new_property_version_on(result.propertyId,
                                      result.current_version,
                                      PlaneCreate(plane))
    /\ plane' = [plane EXCEPT !.latest = plane.latest + 1]
    /\ UNCHANGED <<earlier, params, check_mode, network, activation_link,
                   ruletree>>

\* the rule update is accepted or rejected
RunUpdate ==
    /\ pc = "update"
    /\ \E code \in {200, 500} :
          update_property_on(params.name, result.propertyId,
                             result.new_version, "document",
                             [status_code |-> code, text |-> [json |-> TRUE]])
    /\ UNCHANGED <<plane, earlier, params, check_mode, network,
                   activation_link>>

RunActivateStaging ==
    /\ pc = "activate_staging"
    /\ activate_property_on(result.propertyId, "STAGING",
                            PlaneActivate(plane))
    /\ UNCHANGED <<plane, earlier, params, check_mode, ruletree>>

RunActivateProduction ==
    /\ pc = "activate_production"
    /\ activate_property_on(result.propertyId, "PRODUCTION",
                            PlaneActivate(plane))
    /\ UNCHANGED <<plane, earlier, params, check_mode, ruletree>>

\* a status fetch; the version becomes the active one when its PRODUCTION
\* activation is reported ACTIVE
RunFetchStatus ==
    /\ pc = "poll"
    /\ FetchesSince(calls, Len(calls)) < MaxPolls
    /\ \E st \in {"PENDING", "ACTIVE"} :
          /\ fetch_status_on(PlaneStatus(st))
          /\ plane' = IF st = "ACTIVE" /\ network = "PRODUCTION"
                      THEN [plane EXCEPT !.active = IntOf(result.new_version)]
                      ELSE plane
    /\ UNCHANGED <<earlier, params, check_mode, result, network,
                   activation_link, ruletree>>

\* the host runs the module again with the same inputs
NextRun ==
    /\ pc = "done"
    /\ Len(earlier) + 1 < MaxRuns
    /\ earlier' = Append(earlier, [outcome |-> outcome,
                                   reported |-> reported,
                                   calls |-> calls])
    /\ result' = InitResult
    /\ pc' = "run_module"
    /\ network' = ""
    /\ activation_link' = ""
    /\ ruletree' = "unread"
    /\ calls' = <<>>
    /\ response' = NoResponse
    /\ outcome' = "running"
    /\ reported' = NoKwargs
    /\ UNCHANGED <<plane, params, check_mode>>

NextRuns ==
    \/ RunSearch
    \/ RunCreate
    \/ RunUpdate
    \/ RunActivateStaging
    \/ RunActivateProduction
    \/ RunFetchStatus
    \/ Sleep
    \/ Finish
    \/ NextRun

SuccessiveRuns == InitRuns /\ [][NextRuns]_vars

----------------------------------------------------------------------------

Next ==
    \/ CheckMode
    \/ SearchProperty
    \/ CreateNewPropertyVersion
    \/ UpdateProperty
    \/ ActivateStaging
    \/ ActivateProduction
    \/ FetchStatus
    \/ Sleep
    \/ Finish

Spec == Init /\ [][Next]_vars

----------------------------------------------------------------------------
(* Vocabulary of the properties *)

\* the requests of the four steps, without status fetches and sleeps
StepCalls == SelectSeq(calls, LAMBDA c : c.action \notin {"status", "sleep"})

StepName(c) == IF c.action = "activate" THEN c.network ELSE c.action

StepsSent == [i \in 1..Len(StepCalls) |-> StepName(StepCalls[i])]

\* the sequence the inputs ask for
Plan ==
    <<"search", "create", "update">>
    \o (IF params.activate_staging THEN <<"STAGING">> ELSE <<>>)
    \o (IF params.activate_production THEN <<"PRODUCTION">> ELSE <<>>)

ActiveIndexes(items) ==
    {i \in 1..Len(items) : items[i].productionStatus = "ACTIVE"}

LastActive(items) ==
    CHOOSE i \in ActiveIndexes(items) : \A j \in ActiveIndexes(items) : j <= i

HasCall(action) == \E i \in 1..Len(calls) : calls[i].action = action

ApiKeys == {"api_search_response", "api_creation_response",
            "api_activation_response", "api_update_response"}

----------------------------------------------------------------------------
\* C1: outside check mode the requests sent are always an initial part of
\* search, create, update, STAGING activation (if asked), PRODUCTION
\* activation (if asked), and the whole of it once run_module is past its
\* last activation; the create request carries the propertyId and version
\* locate left in the result (those of the last ACTIVE item), and the update
\* request the version fork recorded from the creation response.
C1_FixedOrder ==
    ~check_mode =>
        /\ Len(StepsSent) <= Len(Plan)
        /\ StepsSent = SubSeq(Plan, 1, Len(StepsSent))
        /\ (pc = "finish" \/ outcome = "exit_json") => StepsSent = Plan
        /\ \A i \in 1..Len(calls) :
              /\ calls[i].action = "create" =>
                    /\ calls[i].createFromVersion = result.current_version
                    /\ calls[i].property_id = result.propertyId
                    /\ LET items == result.api_search_response.items IN
                       ActiveIndexes(items) # {} =>
                          calls[i].createFromVersion =
                             PyInt(items[LastActive(items)].propertyVersion)
              /\ calls[i].action = "update" =>
                    /\ calls[i].new_version = result.new_version
                    /\ <<calls[i].new_version>> =
                          re_findall(result.api_creation_response.versionLink)
                    /\ calls[i].property_id = result.propertyId

\* a run with both activations asked for has sent all five requests
C1_Witness ==
    /\ ~check_mode
    /\ outcome = "exit_json"
    /\ StepsSent = <<"search", "create", "update", "STAGING", "PRODUCTION">>

----------------------------------------------------------------------------
\* C2: once the run has ended no request is sent any more, and a run that
\* ended in a failure has reported every field the result held at that
\* point.
C2_FailureCarriesResult ==
    /\ [][outcome # "running" => calls' = calls]_vars
    /\ [](outcome \in {"fail_json", "exception"} =>
             \A k \in DOMAIN result :
                 /\ k \in DOMAIN reported
                 /\ k # "failed" => reported[k] = result[k])

----------------------------------------------------------------------------
\* C3: in check mode no request is ever sent, and the run ends by handing
\* the host the seeded record: changed false, propertyId, current_version
\* and new_version empty, no api_*_response key.
C3_CheckMode ==
    check_mode =>
        /\ calls = <<>>
        /\ pc = "done" =>
              /\ outcome = "exit_json"
              /\ reported = [changed |-> FALSE, failed |-> FALSE,
                             propertyId |-> "",
                             current_version |-> PyStr(""),
                             new_version |-> <<>>]
              /\ DOMAIN reported \cap ApiKeys = {}

C3_Witness == check_mode /\ pc = "done" /\ outcome = "exit_json"

----------------------------------------------------------------------------
\* C4: a create request is only ever sent after a search response that held
\* a production-ACTIVE item, and it names the version of such an item; a
\* search response without one never leads to a create request.
C4_ForkOnlyFromActive ==
    \A i \in 1..Len(calls) :
        calls[i].action = "create" =>
            \E j \in ActiveIndexes(result.api_search_response.items) :
                calls[i].createFromVersion =
                    PyInt(result.api_search_response.items[j].propertyVersion)

----------------------------------------------------------------------------
\* C5: every activation request names as propertyVersion the version that
\* the fork of this run recorded from its creation response, and is sent
\* only after that fork.
C5_ActivatesForkedVersion ==
    \A i \in 1..Len(calls) :
        calls[i].action = "activate" =>
            /\ \E j \in 1..(i - 1) : calls[j].action = "create"
            /\ result.changed
            /\ "api_creation_response" \in DOMAIN result
            /\ <<calls[i].propertyVersion>> =
                  re_findall(result.api_creation_response.versionLink)
            /\ calls[i].propertyVersion = result.new_version

\* both networks have been asked to activate the forked version
C5_Witness ==
    /\ \E i \in 1..Len(calls) :
          calls[i].action = "activate" /\ calls[i].network = "STAGING"
    /\ \E i \in 1..Len(calls) :
          calls[i].action = "activate" /\ calls[i].network = "PRODUCTION"
    /\ result.new_version = <<"6", "7">>

----------------------------------------------------------------------------
\* C6: when both activations are asked for, the call right before the
\* PRODUCTION activation request is a status fetch of the STAGING
\* activation that reported ACTIVE, and nothing of the STAGING activation
\* follows the PRODUCTION request.
C6_ProductionAfterStagingActive ==
    \A i \in 1..Len(calls) :
        (/\ calls[i].action = "activate"
         /\ calls[i].network = "PRODUCTION"
         /\ params.activate_staging) =>
            /\ i > 1
            /\ calls[i - 1].action = "status"
            /\ calls[i - 1].network = "STAGING"
            /\ calls[i - 1].status = "ACTIVE"
            /\ \E j \in 1..(i - 1) :
                  calls[j].action = "activate" /\ calls[j].network = "STAGING"
            /\ \A j \in (i + 1)..Len(calls) :
                  calls[j].action \in {"status", "sleep"}
                  /\ (calls[j].action = "status" =>
                         calls[j].network = "PRODUCTION")

\* PRODUCTION was requested after STAGING had been polled more than once
C6_Witness ==
    /\ params.activate_staging
    /\ \E i \in 4..Len(calls) :
          /\ calls[i].action = "activate"
          /\ calls[i].network = "PRODUCTION"
          /\ calls[i - 2].action = "sleep"

----------------------------------------------------------------------------
\* C7: after a search, create, update or activation request whose response
\* has a status code other than 200, 201, 204, the run has ended with the
\* 'Error Response Received from API Endpoint' report, whatever the body.
C7_TransportError ==
    (/\ calls # <<>>
     /\ calls[Len(calls)].action \in {"search", "create", "update", "activate"}
     /\ response.status_code \notin {200, 201, 204}) =>
        /\ outcome = "fail_json"
        /\ reported.msg = "Error Response Received from API Endpoint"

----------------------------------------------------------------------------
\* C8: a search response with an accepted status and an empty item list
\* ends the run with 'Property Not Found', the report has changed false and
\* propertyId and new_version still empty, and search is the only request.
SearchAccepted == Len(calls) > 1 \/ response.status_code \in {200, 201, 204}

C8_EmptySearch ==
    (/\ "api_search_response" \in DOMAIN result
     /\ result.api_search_response.shaped
     /\ result.api_search_response.items = <<>>
     /\ SearchAccepted) =>
        /\ outcome = "fail_json"
        /\ reported.msg = "Property Not Found"
        /\ reported.failed
        /\ reported.propertyId = ""
        /\ reported.new_version = <<>>
        /\ reported.changed = FALSE
        /\ Len(calls) = 1
        /\ calls[1].action = "search"

C8_Witness ==
    /\ outcome = "fail_json"
    /\ reported.msg = "Property Not Found"
    /\ response.status_code = 204
    /\ result.api_search_response.items = <<>>

----------------------------------------------------------------------------
\* C9: once locate has returned, if the search response held an ACTIVE item
\* then propertyId and current_version are those of the last ACTIVE item of
\* the list, both from that one item.
LocateReturned == pc = "create" \/ Len(calls) >= 2

C9_LastActiveWins ==
    LocateReturned =>
        LET items == result.api_search_response.items IN
        ActiveIndexes(items) # {} =>
            /\ result.propertyId = items[LastActive(items)].propertyId
            /\ result.current_version =
                  PyInt(items[LastActive(items)].propertyVersion)

\* two ACTIVE items that differ in both fields, the later one kept
C9_Witness ==
    /\ pc = "create"
    /\ Cardinality(ActiveIndexes(result.api_search_response.items)) = 2
    /\ result.api_search_response.items[1].propertyId = "prp_2"
    /\ result.propertyId = "prp_1"
    /\ result.current_version = PyInt(4)

----------------------------------------------------------------------------
\* C10: after a creation response with an accepted status whose versionLink
\* is <something>/<digits>?<query>, the digits being the last segment of the
\* path and the query what follows the first '?', new_version is those
\* digits and changed is true.
QueryStart(link) ==
    CHOOSE q \in 1..Len(link) :
        link[q] = "?" /\ \A k \in 1..(q - 1) : link[k] # "?"

\* the link is a path ending in '/<digits>', then '?', then a query
EndsInVersion(link) ==
    /\ \E q \in 1..Len(link) : link[q] = "?"
    /\ QueryStart(link) < Len(link)
    /\ \E i \in 2..(QueryStart(link) - 2) :
          /\ link[i] = "/"
          /\ \A k \in (i + 1)..(QueryStart(link) - 1) : link[k] \in Digits

PathVersion(link) ==
    LET q == QueryStart(link)
        i == CHOOSE x \in 2..(q - 2) :
                 link[x] = "/" /\ \A k \in (x + 1)..(q - 1) : link[k] \in Digits
    IN SubSeq(link, i + 1, q - 1)

CreateAccepted ==
    /\ "api_creation_response" \in DOMAIN result
    /\ \/ Len(StepCalls) > 2
       \/ response.status_code \in {200, 201, 204}

C10_ForkRecordsVersion ==
    (/\ CreateAccepted
     /\ result.api_creation_response.shaped
     /\ EndsInVersion(result.api_creation_response.versionLink)) =>
        /\ result.new_version =
              PathVersion(result.api_creation_response.versionLink)
        /\ result.changed = TRUE

----------------------------------------------------------------------------
\* C11: after a creation response with an accepted status whose versionLink
\* is not <something>/<digits>?<query>, the run has ended in a
\* failure reported with the result gathered so far, and neither a rule
\* update nor an activation request was sent.
C11_MalformedCreation ==
    (/\ CreateAccepted
     /\ result.api_creation_response.shaped
     /\ ~EndsInVersion(result.api_creation_response.versionLink)) =>
        /\ outcome = "fail_json"
        /\ "msg" \in DOMAIN reported
        /\ \A k \in DOMAIN result \ {"failed"} :
              k \in DOMAIN reported /\ reported[k] = result[k]
        /\ ~HasCall("update")
        /\ ~HasCall("activate")

----------------------------------------------------------------------------
\* C12: at every point changed is true exactly if the create request of
\* this run was accepted, the reported result says the same, the flag never
\* goes back to false, and it only changes in the step that sends the
\* create request.
CreateWasAccepted ==
    /\ HasCall("create")
    /\ \/ Len(StepCalls) > 2
       \/ response.status_code \in {200, 201, 204}

C12_ChangedIffCreated ==
    /\ [](result.changed <=> CreateWasAccepted)
    /\ []("changed" \in DOMAIN reported =>
             (reported.changed <=> CreateWasAccepted))
    /\ [][result.changed => result'.changed]_vars
    /\ [][result'.changed # result.changed =>
             /\ Len(calls') = Len(calls) + 1
             /\ calls'[Len(calls')].action = "create"]_vars

----------------------------------------------------------------------------
\* C13: after an activation request the calls are status fetch, sleep of
\* 10, status fetch, ... : the first fetch follows the request directly,
\* every fetch that does not report ACTIVE is followed by one sleep and
\* then the next fetch, and the fetch that reports ACTIVE is the last call
\* of that activation, after which activate_property has returned.  So k-1
\* non-ACTIVE reports and then ACTIVE make exactly k fetches and k-1 sleeps.
IsActivate(i) == calls[i].action = "activate"

\* the activation request that the call at i belongs to
RequestOf(i) ==
    CHOOSE a \in 1..i : IsActivate(a) /\ \A b \in (a + 1)..i : ~IsActivate(b)

C13_PollingShape ==
    /\ \A i \in 1..Len(calls) :
          calls[i].action \in {"status", "sleep"} =>
              /\ \E a \in 1..i : IsActivate(a)
              /\ (calls[i].action = "status") <=> ((i - RequestOf(i)) % 2 = 1)
              /\ calls[i].action = "sleep" =>
                    /\ calls[i].seconds = 10
                    /\ calls[i - 1].status # "ACTIVE"
              /\ (calls[i].action = "status" /\ calls[i].status = "ACTIVE") =>
                    \/ i = Len(calls)
                    \/ IsActivate(i + 1)
              /\ (i < Len(calls) /\ IsActivate(i + 1)) =>
                    (calls[i].action = "status" /\ calls[i].status = "ACTIVE")
    /\ (calls # <<>> /\ calls[Len(calls)].action = "status") =>
          IF calls[Len(calls)].status = "ACTIVE"
          THEN \/ pc \in {"activate_production", "finish"}
               \/ pc = "done" /\ outcome \in {"exit_json", "fail_json"}
          ELSE \/ pc = "sleep"
               \/ pc = "done" /\ outcome = "exception"

\* PENDING, PENDING, ACTIVE: three fetches, two sleeps, and the call is over
C13_Witness ==
    /\ Len(calls) = 9
    /\ IsActivate(4)
    /\ [i \in 5..9 |-> IF calls[i].action = "status"
                       THEN calls[i].status ELSE "sleep"]
          = [i \in 5..9 |-> <<"PENDING", "sleep", "PENDING", "sleep",
                              "ACTIVE">>[i - 4]]
    /\ pc = "finish"

----------------------------------------------------------------------------
\* the status fetch at i was the last of the loop: the loop did not go on
\* to sleep after it
LoopLeftAt(i) ==
    /\ calls[i].action = "status"
    /\ IF i < Len(calls) THEN calls[i + 1].action # "sleep" ELSE pc # "sleep"

----------------------------------------------------------------------------
CallsOf(action) == {i \in 1..Len(calls) : calls[i].action = action}

ActivationsOn(net) == {i \in CallsOf("activate") : calls[i].network = net}

Asked(net) ==
    IF net = "STAGING" THEN params.activate_staging
    ELSE params.activate_production

\* C15: search, create and update are each sent at most once, an
\* activation at most once per network and only on a network that was
\* asked for; a run that ends with exit_json outside check mode has sent
\* each exactly once; and with name demo, notes n, STAGING only, a search
\* that reports version 5 active and a creation link for version 6, that
\* run sent createFromVersion 5, comments n, one STAGING activation, and
\* reported current_version 5, new_version '6', changed true.
C15_EachRequestOnce ==
    /\ \A a \in {"search", "create", "update"} : Cardinality(CallsOf(a)) <= 1
    /\ \A net \in {"STAGING", "PRODUCTION"} :
          /\ Cardinality(ActivationsOn(net)) <= 1
          /\ ActivationsOn(net) # {} => Asked(net)
    /\ \A i \in CallsOf("activate") :
          calls[i].network \in {"STAGING", "PRODUCTION"}
    /\ (outcome = "exit_json" /\ ~check_mode) =>
          /\ \A a \in {"search", "create", "update"} :
                Cardinality(CallsOf(a)) = 1
          /\ \A net \in {"STAGING", "PRODUCTION"} :
                Cardinality(ActivationsOn(net)) = (IF Asked(net) THEN 1 ELSE 0)
          /\ (/\ params = [name |-> "demo", version_notes |-> "n",
                           activate_staging |-> TRUE,
                           activate_production |-> FALSE]
              /\ LET items == result.api_search_response.items IN
                 /\ ActiveIndexes(items) # {}
                 /\ items[LastActive(items)].propertyVersion = 5
              /\ result.api_creation_response.versionLink
                    = <<"v", "/", "6", "?", "q">>) =>
                /\ \A i \in CallsOf("create") :
                      calls[i].createFromVersion = PyInt(5)
                /\ \A i \in CallsOf("update") : calls[i].comments = "n"
                /\ \A i \in CallsOf("activate") : calls[i].network = "STAGING"
                /\ Cardinality(CallsOf("activate")) = 1
                /\ reported.current_version = PyInt(5)
                /\ reported.new_version = <<"6">>
                /\ reported.changed = TRUE

\* the end-to-end scenario has run to its end
C15_Witness ==
    /\ outcome = "exit_json"
    /\ params = [name |-> "demo", version_notes |-> "n",
                 activate_staging |-> TRUE, activate_production |-> FALSE]
    /\ reported.current_version = PyInt(5)
    /\ reported.new_version = <<"6">>
    /\ Cardinality(ActivationsOn("STAGING")) = 1
    /\ Cardinality(CallsOf("status")) = 2

----------------------------------------------------------------------------
\* C17: a run that has stopped has reported to the host, either with
\* exit_json or with fail_json carrying a message and the result, and what
\* it reported is never replaced.
C17_ReportedExactlyOnce ==
    /\ [](pc = "done" =>
             /\ outcome \in {"exit_json", "fail_json"}
             /\ \A k \in DOMAIN result : k \in DOMAIN reported
             /\ outcome = "fail_json" <=> "msg" \in DOMAIN reported)
    /\ [][outcome # "running" => UNCHANGED <<outcome, reported>>]_vars

----------------------------------------------------------------------------
\* C18: when the rule tree file is missing, no update and no activation
\* request is sent and the run ends in a failure whose reported result has
\* changed true and the new_version of the fork.
C18_MissingRuleTree ==
    ruletree = "missing" =>
        /\ ~HasCall("update")
        /\ ~HasCall("activate")
        /\ pc = "done"
        /\ outcome = "fail_json"
        /\ "changed" \in DOMAIN reported
        /\ reported.changed = TRUE
        /\ reported.new_version = result.new_version
        /\ result.new_version # <<>>

----------------------------------------------------------------------------
\* C19: no response with a status code outside 200, 201, 204 is acted on:
\* after any request or status fetch that got such a response the run has
\* ended, and not as a success.
C19_EveryResponseValidated ==
    (/\ calls # <<>>
     /\ calls[Len(calls)].action
           \in {"search", "create", "update", "activate", "status"}
     /\ response.status_code \notin {200, 201, 204}) =>
        /\ pc = "done"
        /\ outcome # "exit_json"

----------------------------------------------------------------------------
\* C20: a result reported with exit_json or fail_json has
\* api_search_response, api_creation_response, api_activation_response
\* exactly if a search, create, activation request was sent, never has
\* api_update_response, and after two activation requests its one
\* api_activation_response is the response to the second.
KeyOf(action) ==
    CASE action = "search" -> "api_search_response"
      [] action = "create" -> "api_creation_response"
      [] action = "activate" -> "api_activation_response"

C20_ApiFields ==
    outcome \in {"exit_json", "fail_json"} =>
        /\ \A a \in {"search", "create", "activate"} :
              KeyOf(a) \in DOMAIN reported <=> HasCall(a)
        /\ "api_update_response" \notin DOMAIN reported
        /\ DOMAIN reported \subseteq
              {"changed", "failed", "propertyId", "current_version",
               "new_version", "msg", "api_search_response",
               "api_creation_response", "api_activation_response"}
        /\ (Cardinality(CallsOf("activate")) = 2
            /\ reported.api_activation_response.shaped
            /\ response.status_code \in {200, 201, 204}) =>
              /\ reported.api_activation_response.activationLink
                    = activation_link
              /\ \A i \in CallsOf("status") :
                    calls[i].network = "PRODUCTION" =>
                        calls[i].link =
                           reported.api_activation_response.activationLink

\* both networks activated under different links; the field holds the
\* PRODUCTION response
C20_Witness ==
    /\ outcome = "exit_json"
    /\ Cardinality(CallsOf("activate")) = 2
    /\ \E i \in CallsOf("status") :
          calls[i].network = "STAGING" /\ calls[i].link = "atv_1"
    /\ reported.api_activation_response.activationLink = "atv_2"

----------------------------------------------------------------------------
\* the runs that have ended so far, in order
RunsEnded ==
    earlier \o (IF outcome = "running" THEN <<>>
                ELSE <<[outcome |-> outcome, reported |-> reported,
                        calls |-> calls]>>)

\* C16: of the runs made in succession with the same inputs against one
\* control plane, every run that ended with exit_json sent a create request
\* and reports changed true, and its new_version, read as a number, is
\* greater than that of every earlier such run, whether or not the earlier
\* run activated its version.
C16_EachRunForks ==
    \A i \in 1..Len(RunsEnded) :
        RunsEnded[i].outcome = "exit_json" =>
            /\ \E c \in 1..Len(RunsEnded[i].calls) :
                  RunsEnded[i].calls[c].action = "create"
            /\ RunsEnded[i].reported.changed = TRUE
            /\ \A j \in 1..(i - 1) :
                  RunsEnded[j].outcome = "exit_json" =>
                      IntOf(RunsEnded[i].reported.new_version)
                         > IntOf(RunsEnded[j].reported.new_version)

\* two successful runs without a PRODUCTION activation: versions 9 and 10
C16_Witness ==
    /\ Len(RunsEnded) = 2
    /\ ~params.activate_production
    /\ RunsEnded[1].outcome = "exit_json"
    /\ RunsEnded[2].outcome = "exit_json"
    /\ RunsEnded[1].reported.new_version = <<"9">>
    /\ RunsEnded[2].reported.new_version = <<"1", "0">>

====
